---- MODULE Spec2Model ----
(***************************************************************************)
(* Model of vsts/cli/package/common/artifacttool.py (class ArtifactTool).  *)
(*                                                                         *)
(* Two specifications share the module:                                    *)
(*   Spec      one download_upack / publish_upack run supervising a child  *)
(*             process: the child writes lines to its error stream and     *)
(*             exits, _process_stderr interprets the lines, and            *)
(*             _check_proc_result decides the outcome.                     *)
(*   SpecProv  concurrent invoke_artifacttool calls resolving the binary   *)
(*             through _get_artifacttool and the shared cache directory.   *)
(***************************************************************************)
EXTENDS Integers, Sequences, FiniteSets, TLC

None == "None"

\* ------------------------------------------------------------------------
\* Bounds
\* ------------------------------------------------------------------------
\* most lines a child writes to its error stream in one run
MaxLines == 2
\* exit codes of the child range over 0..MaxExit
MaxExit == 2
\* chunks the pipe of the child's standard output holds before a write blocks
PipeCapacity == 1
\* most chunks a child writes to its standard output in one run
MaxStdout == 2

ExitCodes == 0..MaxExit

\* ------------------------------------------------------------------------
\* Lines of the child's error stream.
\*
\* A line is the bytes the child wrote up to a newline.  Its fields describe
\* what each step of the loop body sees:
\*   enc     "utf8" when str(line, 'utf-8') decodes the bytes, "bad" when not
\*   text    the decoded, stripped text
\*   js      what json.loads(text) gives: "invalid" (it raises), or the type
\*           of the value: "null", "number", "string", "list", "object"
\*   truthy  bool(value) of a number, string or list (an object is truthy
\*           when it has a key)
\*   has     the keys k for which `k in value` is True (keys of an object,
\*           substrings of a string, members of a list)
\*   m, l    the values of '@m' and '@l' of an object
\*   evt     the type of the value of 'EventId' ("absent" without the key)
\*   evhas   whether `'Name' in value['EventId']` is True
\*   name    value['EventId']['Name'] of an object EventId
\*   pf, tf, ub, tb   the numbers under ProcessedFiles, TotalFiles,
\*           UploadedBytes, TotalBytes (read only when the key is in has)
\* ------------------------------------------------------------------------
Blank ==
  [text |-> "", enc |-> "utf8", js |-> "object", truthy |-> TRUE, has |-> {},
   m |-> None, l |-> None, evt |-> "absent", evhas |-> FALSE, name |-> None,
   pf |-> 0, tf |-> 0, ub |-> 0, tb |-> 0]

EvObj(o, n) == [o EXCEPT !.evt = "object", !.evhas = TRUE, !.name = n]

\* bytes that are not UTF-8
LBadUtf8 == [Blank EXCEPT !.text = "<0xff>", !.enc = "bad", !.js = "invalid"]
\* stray diagnostics: not JSON
LRaw == [Blank EXCEPT !.text = "disk full", !.js = "invalid"]
LNull == [Blank EXCEPT !.text = "null", !.js = "null", !.truthy = FALSE]
LNumber == [Blank EXCEPT !.text = "42", !.js = "number"]
LString == [Blank EXCEPT !.text = "\"ok\"", !.js = "string"]
LErrNoMsg == [Blank EXCEPT !.text = "{\"@l\":\"Error\"}", !.has = {"@l"}, !.l = "Error"]
LError ==
  [Blank EXCEPT !.text = "{\"@l\":\"Error\",\"@m\":\"bad feed\"}",
                !.has = {"@l", "@m"}, !.l = "Error", !.m = "bad feed"]
LCritical ==
  EvObj([Blank EXCEPT !.text = "{\"@l\":\"Critical\",\"@m\":\"fatal\",\"EventId\":{\"Name\":\"Uploading\"},\"UploadedBytes\":50,\"TotalBytes\":200}",
                      !.has = {"@l", "@m", "EventId", "UploadedBytes", "TotalBytes"},
                      !.l = "Critical", !.m = "fatal", !.ub = 50, !.tb = 200],
        "Uploading")
LWarning ==
  [Blank EXCEPT !.text = "{\"@l\":\"Warning\",\"@m\":\"slow\"}",
                !.has = {"@l", "@m"}, !.l = "Warning", !.m = "slow"]
LInformation ==
  [Blank EXCEPT !.text = "{\"@l\":\"Information\",\"@m\":\"starting\"}",
                !.has = {"@l", "@m"}, !.l = "Information", !.m = "starting"]
LNoLevel ==
  [Blank EXCEPT !.text = "{\"@m\":\"hello\"}", !.has = {"@m"}, !.m = "hello"]
LVerbose ==
  [Blank EXCEPT !.text = "{\"@l\":\"Verbose\",\"@m\":\"trace\"}",
                !.has = {"@l", "@m"}, !.l = "Verbose", !.m = "trace"]
LUploading ==
  EvObj([Blank EXCEPT !.text = "{\"EventId\":{\"Name\":\"Uploading\"},\"UploadedBytes\":50,\"TotalBytes\":200}",
                      !.has = {"EventId", "UploadedBytes", "TotalBytes"},
                      !.ub = 50, !.tb = 200],
        "Uploading")
LProcessing ==
  EvObj([Blank EXCEPT !.text = "{\"@m\":\"processing\",\"EventId\":{\"Name\":\"ProcessingFiles\"},\"ProcessedFiles\":1,\"TotalFiles\":4}",
                      !.has = {"@m", "EventId", "ProcessedFiles", "TotalFiles"},
                      !.m = "processing", !.pf = 1, !.tf = 4],
        "ProcessingFiles")
LUploadingZero ==
  EvObj([Blank EXCEPT !.text = "{\"@m\":\"uploading\",\"EventId\":{\"Name\":\"Uploading\"},\"UploadedBytes\":0,\"TotalBytes\":0}",
                      !.has = {"@m", "EventId", "UploadedBytes", "TotalBytes"},
                      !.m = "uploading"],
        "Uploading")
LProcessingNoCounts ==
  EvObj([Blank EXCEPT !.text = "{\"EventId\":{\"Name\":\"ProcessingFiles\"}}",
                      !.has = {"EventId"}],
        "ProcessingFiles")
LEventIdNumber ==
  [Blank EXCEPT !.text = "{\"EventId\":7}", !.has = {"EventId"}, !.evt = "number"]
LOtherEvent ==
  EvObj([Blank EXCEPT !.text = "{\"@m\":\"done\",\"EventId\":{\"Name\":\"Finished\"}}",
                      !.has = {"@m", "EventId"}, !.m = "done"],
        "Finished")

Lines ==
  {LBadUtf8, LRaw, LNull, LNumber, LString, LErrNoMsg, LError, LCritical,
   LWarning, LInformation, LNoLevel, LVerbose, LUploading, LProcessing,
   LUploadingZero, LProcessingNoCounts, LEventIdNumber, LOtherEvent}

\* ------------------------------------------------------------------------
\* The body of the loop of _process_stderr, as pure operators.
\* A step yields the exception it raises (None when it raises nothing), the
\* exception's message, the logger calls it made and the spinner.step calls
\* it made.
\* ------------------------------------------------------------------------
Log(sev, text) == [sev |-> sev, text |-> text]

FailedToParse ==
  "Failed to parse JSON log line. Ensure that ArtifactTool structured logging is enabled."

Quiet == [raise |-> None, msg |-> "", logs |-> <<>>, steps |-> <<>>]

Raise(kind, msg, logs) == [raise |-> kind, msg |-> msg, logs |-> logs, steps |-> <<>>]

\* bool(json_line)
Truthy(j) ==
  CASE j.js = "null" -> FALSE
    [] j.js = "object" -> j.has # {}
    [] OTHER -> j.truthy

\* try: json.loads(text_line)  except: json_line = None; logger.debug(...)
\* The value it leaves in json_line, and the logger call of the except branch.
JsonLoads(line) ==
  IF line.js = "invalid"
  THEN [json |-> [line EXCEPT !.js = "null"], caught |-> TRUE,
        logs |-> <<Log("debug", FailedToParse)>>]
  ELSE [json |-> line, caught |-> FALSE, logs |-> <<>>]

\* log_level in ["Critical", "Error"]
IsFatalCriticalOnly(log_level) == log_level = "Critical"

IsFatal(log_level) == log_level \in {"Critical", "Error"}

\* if json_line is not None and '@m' in json_line: ... else: logger.debug(text_line)
Severity(j, text) ==
  IF j.js = "null" THEN [Quiet EXCEPT !.logs = <<Log("debug", text)>>]
  ELSE IF j.js = "number" THEN Raise("TypeError", "argument of type is not iterable", <<>>)
  ELSE IF "@m" \notin j.has THEN [Quiet EXCEPT !.logs = <<Log("debug", text)>>]
  ELSE IF j.js # "object" THEN Raise("TypeError", "indices must be integers", <<>>)
  ELSE LET log_level == IF "@l" \in j.has THEN j.l ELSE "Information"
           message == j.m
       IN  IF IsFatal(log_level) THEN Raise("CLIError", message, <<>>)
           ELSE IF log_level = "Warning"
             THEN [Quiet EXCEPT !.logs = <<Log("warning", message)>>]
           ELSE IF log_level = "Information"
             THEN [Quiet EXCEPT !.logs = <<Log("info", message)>>]
           ELSE [Quiet EXCEPT !.logs = <<Log("debug", message)>>]

\* 100 * float(a) / float(b): the quotient, kept exact as numerator and
\* denominator (b # 0)
Percent(a, b) == [n |-> 100 * a, d |-> b]

Step(percent, fmt, x, y) == [progress |-> percent, label |-> [fmt |-> fmt, x |-> x, y |-> y]]

\* spinner.step() of download_upack / publish_upack: no progress, no label
FirstStep == Step([n |-> 0, d |-> 1], None, 0, 0)

ProcessingFiles(j) ==
  IF "ProcessedFiles" \notin j.has THEN Raise("KeyError", "ProcessedFiles", <<>>)
  ELSE IF "TotalFiles" \notin j.has THEN Raise("KeyError", "TotalFiles", <<>>)
  ELSE IF j.tf = 0 THEN Raise("ZeroDivisionError", "float division by zero", <<>>)
  ELSE [Quiet EXCEPT !.steps =
          <<Step(Percent(j.pf, j.tf), "Pre-upload processing: %s/%s files", j.pf, j.tf)>>]

Uploading(j) ==
  IF "UploadedBytes" \notin j.has THEN Raise("KeyError", "UploadedBytes", <<>>)
  ELSE IF "TotalBytes" \notin j.has THEN Raise("KeyError", "TotalBytes", <<>>)
  ELSE IF j.tb = 0 THEN Raise("ZeroDivisionError", "float division by zero", <<>>)
  ELSE [Quiet EXCEPT !.steps =
          <<Step(Percent(j.ub, j.tb), "Uploading: %s/%s bytes", j.ub, j.tb)>>]

\* if json_line and 'EventId' in json_line and 'Name' in json_line['EventId']: ...
Progress(j) ==
  IF ~Truthy(j) THEN Quiet
  ELSE IF j.js = "number" THEN Raise("TypeError", "argument of type is not iterable", <<>>)
  ELSE IF "EventId" \notin j.has THEN Quiet
  ELSE IF j.js # "object" THEN Raise("TypeError", "indices must be integers", <<>>)
  ELSE IF j.evt \in {"null", "number"}
    THEN Raise("TypeError", "argument of type is not iterable", <<>>)
  ELSE IF ~j.evhas THEN Quiet
  ELSE IF j.evt # "object" THEN Raise("TypeError", "indices must be integers", <<>>)
  ELSE LET event_name == j.name
       IN  IF event_name = "ProcessingFiles" THEN ProcessingFiles(j)
           ELSE IF event_name = "Uploading" THEN Uploading(j)
           ELSE Quiet

\* one iteration of `for line in proc.stderr`
LoopBody(line) ==
  IF line.enc # "utf8"
  THEN Raise("UnicodeDecodeError", "invalid start byte", <<>>)
  ELSE LET text_line == line.text
           parsed == JsonLoads(line)
           sev == Severity(parsed.json, text_line)
           prog == Progress(parsed.json)
       IN  IF sev.raise # None
           THEN Raise(sev.raise, sev.msg, parsed.logs \o sev.logs)
           ELSE [raise |-> prog.raise, msg |-> prog.msg,
                 logs |-> parsed.logs \o sev.logs, steps |-> prog.steps]

\* ------------------------------------------------------------------------
\* State
\* ------------------------------------------------------------------------
VARIABLES
  \* --- one download_upack / publish_upack run (Spec) ---
  pc,          \* where the run is: "idle", "stderr", "check", "done"
  op,          \* "download" or "publish" (None before the call)
  child,       \* the child: "none", "running", "closed" (stderr closed), "exited"
  status,      \* <<c>> once the child has exited with code c
  returncode,  \* proc.returncode: <<>> is None, <<c>> after proc.wait()
  stderrPipe,  \* lines written to the error stream and not read yet
  emitted,     \* every line the child has written to its error stream, in order
  stdoutPipe,  \* chunks in the pipe of the child's standard output (never read)
  blocked,     \* the child is inside a write to its standard output
  seen,        \* lines the loop of _process_stderr has taken from the stream
  logs,        \* logger calls made so far
  progress,    \* spinner.step calls made so far
  outcome,     \* how the run ended
  \* --- provisioning (SpecProv) ---
  environ,     \* os.environ of the parent
  ppc,         \* per invocation: position in invoke_artifacttool
  etag,        \* per invocation: the normalized ETag
  result,      \* per invocation: artifacttool_binary_path, or the exception
  gets,        \* per invocation: GET requests issued by the current call
  sawDir,      \* per invocation: what os.path.exists(tool_dir) returned
  dir,         \* file system: the cache keys whose tool_dir exists
  bin,         \* file system: per cache key, the state of ArtifactTool.exe
  calls,       \* invocations started so far
  header,      \* per invocation: the ETag header of the HEAD answer (<<>> before)
  heads,       \* per invocation: HEAD requests issued by the current call
  proc         \* per invocation: what subprocess.Popen was given and did

streamVars ==
  <<pc, op, child, status, returncode, stderrPipe, emitted, stdoutPipe, blocked,
    seen, logs, progress, outcome>>

provVars ==
  <<environ, ppc, etag, result, gets, sawDir, dir, bin, calls, header, heads, proc>>

vars == <<streamVars, provVars>>

\* ------------------------------------------------------------------------
\* download_upack, publish_upack, _process_stderr, _check_proc_result
\* ------------------------------------------------------------------------
Outcome(kind, msg, code, text) == [kind |-> kind, msg |-> msg, code |-> code, text |-> text]

NoOutcome == Outcome(None, "", <<>>, <<>>)

Texts(ls) == [i \in 1..Len(ls) |-> ls[i].text]

StreamInit ==
  /\ pc = "idle"
  /\ op = None
  /\ child = "none"
  /\ status = <<>>
  /\ returncode = <<>>
  /\ stderrPipe = <<>>
  /\ emitted = <<>>
  /\ stdoutPipe = 0
  /\ blocked = FALSE
  /\ seen = <<>>
  /\ logs = <<>>
  /\ progress = <<>>
  /\ outcome = NoOutcome

\* proc = self.invoke_artifacttool(...); with Spinner(...): spinner.step()
Begin(o) ==
  /\ pc = "idle"
  /\ pc' = "stderr"
  /\ op' = o
  /\ child' = "running"
  /\ progress' = <<FirstStep>>
  /\ UNCHANGED <<status, returncode, stderrPipe, emitted, stdoutPipe, blocked,
                 seen, logs, outcome>>

download_upack == Begin("download")

publish_upack == Begin("publish")

\* the child writes one more line to its error stream
ChildWrite ==
  /\ child = "running"
  /\ ~blocked
  /\ Len(seen) + Len(stderrPipe) < MaxLines
  /\ \E l \in Lines :
       /\ stderrPipe' = Append(stderrPipe, l)
       /\ emitted' = Append(emitted, l)
  /\ UNCHANGED <<pc, op, child, status, returncode, stdoutPipe, blocked,
                 seen, logs, progress, outcome>>

\* the child starts a write of one chunk to its standard output
ChildStdoutBegin ==
  /\ child \in {"running", "closed"}
  /\ ~blocked
  /\ stdoutPipe < MaxStdout
  /\ blocked' = TRUE
  /\ UNCHANGED <<pc, op, child, status, returncode, stderrPipe, emitted, stdoutPipe,
                 seen, logs, progress, outcome>>

\* the write returns once the pipe has room for the chunk; nothing reads the
\* pipe, so a write to a full pipe never returns
ChildStdoutEnd ==
  /\ blocked
  /\ stdoutPipe < PipeCapacity
  /\ stdoutPipe' = stdoutPipe + 1
  /\ blocked' = FALSE
  /\ UNCHANGED <<pc, op, child, status, returncode, stderrPipe, emitted,
                 seen, logs, progress, outcome>>

\* the child closes its error stream and keeps running
ChildClose ==
  /\ child = "running"
  /\ ~blocked
  /\ child' = "closed"
  /\ UNCHANGED <<pc, op, status, returncode, stderrPipe, emitted, stdoutPipe, blocked,
                 seen, logs, progress, outcome>>

\* the child exits, which closes its error stream
ChildExit ==
  /\ child \in {"running", "closed"}
  /\ ~blocked
  /\ child' = "exited"
  /\ \E c \in ExitCodes : status' = <<c>>
  /\ UNCHANGED <<pc, op, returncode, stderrPipe, emitted, stdoutPipe, blocked,
                 seen, logs, progress, outcome>>

\* an iteration that reads a second line before it handles the first
ProcessLineSkipping ==
  /\ pc = "stderr"
  /\ stderrPipe # <<>>
  /\ LET k == IF Len(stderrPipe) >= 2 THEN 2 ELSE 1
         r == LoopBody(stderrPipe[k])
     IN  /\ seen' = Append(seen, stderrPipe[k])
         /\ stderrPipe' = SubSeq(stderrPipe, k + 1, Len(stderrPipe))
         /\ logs' = logs \o r.logs
         /\ progress' = progress \o r.steps
         /\ IF r.raise # None
            THEN /\ pc' = "done"
                 /\ outcome' = Outcome(r.raise, r.msg, <<>>, <<>>)
            ELSE UNCHANGED <<pc, outcome>>
  /\ UNCHANGED <<op, child, status, returncode, emitted, stdoutPipe, blocked>>

\* _process_stderr: one iteration of the loop on the next line of the stream
ProcessLine ==
  /\ pc = "stderr"
  /\ stderrPipe # <<>>
  /\ LET r == LoopBody(Head(stderrPipe))
     IN  /\ seen' = Append(seen, Head(stderrPipe))
         /\ stderrPipe' = Tail(stderrPipe)
         /\ logs' = logs \o r.logs
         /\ progress' = progress \o r.steps
         /\ IF r.raise # None
            THEN /\ pc' = "done"
                 /\ outcome' = Outcome(r.raise, r.msg, <<>>, <<>>)
            ELSE UNCHANGED <<pc, outcome>>
  /\ UNCHANGED <<op, child, status, returncode, emitted, stdoutPipe, blocked>>

\* a loop that ends as soon as the child has exited, lines unread or not
EndOfStreamOnExit ==
  /\ pc = "stderr"
  /\ child = "exited"
  /\ pc' = "check"
  /\ UNCHANGED <<op, child, status, returncode, stderrPipe, emitted, stdoutPipe, blocked,
                 seen, logs, progress, outcome>>

\* _process_stderr: the stream is at its end, the loop ends
EndOfStream ==
  /\ pc = "stderr"
  /\ stderrPipe = <<>>
  /\ child \in {"closed", "exited"}
  /\ pc' = "check"
  /\ UNCHANGED <<op, child, status, returncode, stderrPipe, emitted, stdoutPipe, blocked,
                 seen, logs, progress, outcome>>

\* if proc.returncode != 0
NonZeroNever(rc) == FALSE

NonZero(rc) == rc # <<0>>

\* _check_proc_result: proc.wait(), then the exit code decides
CheckProcResult ==
  /\ pc = "check"
  /\ child = "exited"
  /\ returncode' = status
  /\ pc' = "done"
  /\ IF NonZero(status)
     THEN \* stderr = str(proc.stderr.read(), 'utf-8').strip()
          /\ outcome' = Outcome("Exception", "ArtifactTool exited with return code %i%s",
                                status, Texts(stderrPipe))
          /\ stderrPipe' = <<>>
     ELSE /\ outcome' = Outcome("success", "", status, <<>>)
          /\ UNCHANGED stderrPipe
  /\ UNCHANGED <<op, child, status, emitted, stdoutPipe, blocked, seen, logs, progress>>

\* ------------------------------------------------------------------------
\* invoke_artifacttool and _get_artifacttool
\* ------------------------------------------------------------------------
\* invocations that can run at the same time
NProcs == 2
\* invocations started in one behaviour
MaxCalls == 3

Procs == 1..NProcs

PATVAR == "VSTS_ARTIFACTTOOL_PATVAR"

ARTIFACTTOOL_OVERRIDE_PATH_ENVKEY == "VSTS_ARTIFACTTOOL_OVERRIDE_PATH"

\* the variables of os.environ that invoke_artifacttool reads or injects
EnvKeys == {ARTIFACTTOOL_OVERRIDE_PATH_ENVKEY, PATVAR}

\* creds.password: what the credential provider can return
Passwords == {"pat-1", "pat-2"}

OverridePaths == {None, "/opt/ArtifactTool"}

\* strings are sequences of characters here, so that strip, replace and lower
\* are computed
Upper == <<"A", "B", "C", "D", "E", "F", "X">>

LowerOf == <<"a", "b", "c", "d", "e", "f", "x">>

LowerChar(c) ==
  IF \E i \in 1..Len(Upper) : Upper[i] = c
  THEN LowerOf[CHOOSE i \in 1..Len(Upper) : Upper[i] = c]
  ELSE c

\* s.lower()
Lower(s) == [i \in 1..Len(s) |-> LowerChar(s[i])]

RECURSIVE LStrip(_, _)
LStrip(s, c) == IF s # <<>> /\ Head(s) = c THEN LStrip(Tail(s), c) ELSE s

RECURSIVE RStrip(_, _)
RStrip(s, c) ==
  IF s # <<>> /\ s[Len(s)] = c THEN RStrip(SubSeq(s, 1, Len(s) - 1), c) ELSE s

\* s.strip(c)
Strip(s, c) == RStrip(LStrip(s, c), c)

RECURSIVE Remove0x(_)
\* s.replace("0x", ""): left to right, occurrences that do not overlap
Remove0x(s) ==
  IF Len(s) < 2 THEN s
  ELSE IF s[1] = "0" /\ s[2] = "x" THEN Remove0x(SubSeq(s, 3, Len(s)))
  ELSE <<s[1]>> \o Remove0x(Tail(s))

\* a normalization that keeps the case of the header
NormalizeETagKeepCase(h) == Remove0x(Strip(h, "\""))

\* head_result.headers.get('ETag').strip("\"").replace("0x", "").lower()
NormalizeETag(h) == Lower(Remove0x(Strip(h, "\"")))

\* values of the ETag header the remote can answer with
ETagHeaders ==
  { <<"\"", "a", "b", "c", "0", "x", "D", "E", "F", "\"">>,
    <<"\"", "A", "B", "C", "D", "E", "F", "\"">>,
    <<"\"", "0", "x", "8", "D", "5", "\"">> }

Keys == {NormalizeETag(h) : h \in ETagHeaders}

\* os.path.join(tool_dir, "artifacttool-win10-x64-Release", "ArtifactTool.exe")
BinaryPath(key) ==
  [root |-> "<tempdir>/ArtifactTool", key |-> key,
   sub |-> "artifacttool-win10-x64-Release/ArtifactTool.exe", error |-> None]

OverriddenPath(path) == [root |-> path, key |-> <<>>, sub |-> "", error |-> None]

\* every failure raised as the bare Exception of _check_proc_result
RaisedAsException(kind) ==
  [root |-> "", key |-> <<>>, sub |-> "", error |-> IF kind = None THEN None ELSE "Exception"]

Raised(kind) == [root |-> "", key |-> <<>>, sub |-> "", error |-> kind]

NoResult == Raised(None)

\* subprocess.Popen(command_args, env=new_env): the binary, the environment,
\* the password injected, and whether a child was started
Popen(state, binary, env, password) ==
  [state |-> state, cmd |-> binary, env |-> env, password |-> password]

NoProc == Popen("none", NoResult, <<>>, None)

\* os.environ after the password went into a copy that is not os.environ
EnvironAfterInjectInPlace(env, password) == [env EXCEPT ![PATVAR] = password]

\* new_env = os.environ.copy(); new_env[PATVAR] = creds.password
EnvironAfter(env, password) == env

\* if artifacttool_binary_override_path is not None
UseOverrideNever(path) == FALSE

UseOverride(path) == path # None

ProvInit ==
  /\ environ \in {e \in [EnvKeys -> OverridePaths] : e[PATVAR] = None}
  /\ header = [p \in Procs |-> <<>>]
  /\ heads = [p \in Procs |-> 0]
  /\ proc = [p \in Procs |-> NoProc]
  /\ ppc = [p \in Procs |-> "idle"]
  /\ etag = [p \in Procs |-> <<>>]
  /\ result = [p \in Procs |-> NoResult]
  /\ gets = [p \in Procs |-> 0]
  /\ sawDir = [p \in Procs |-> FALSE]
  /\ dir = {}
  /\ bin = [k \in Keys |-> "absent"]
  /\ calls = 0

\* invoke_artifacttool: the override path, or on to _get_artifacttool
Invoke(p) ==
  /\ \/ ppc[p] \in {"idle", "failed"}
     \/ ppc[p] = "resolved" /\ proc[p].state # "none"
  /\ calls < MaxCalls
  /\ header' = [header EXCEPT ![p] = <<>>]
  /\ heads' = [heads EXCEPT ![p] = 0]
  /\ proc' = [proc EXCEPT ![p] = NoProc]
  /\ calls' = calls + 1
  /\ etag' = [etag EXCEPT ![p] = <<>>]
  /\ gets' = [gets EXCEPT ![p] = 0]
  /\ sawDir' = [sawDir EXCEPT ![p] = FALSE]
  /\ LET artifacttool_binary_override_path == environ[ARTIFACTTOOL_OVERRIDE_PATH_ENVKEY]
     IN  IF UseOverride(artifacttool_binary_override_path)
         THEN /\ ppc' = [ppc EXCEPT ![p] = "resolved"]
              /\ result' = [result EXCEPT ![p] = OverriddenPath(artifacttool_binary_override_path)]
         ELSE /\ ppc' = [ppc EXCEPT ![p] = "head"]
              /\ result' = [result EXCEPT ![p] = NoResult]
  /\ UNCHANGED <<environ, dir, bin>>

Fail(p, kind) ==
  /\ ppc' = [ppc EXCEPT ![p] = "failed"]
  /\ result' = [result EXCEPT ![p] = Raised(kind)]

\* requests.head(url) and the ETag of its answer
Head_(p) ==
  /\ ppc[p] = "head"
  /\ \/ \E h \in ETagHeaders :
          /\ heads' = [heads EXCEPT ![p] = @ + 1]
          /\ header' = [header EXCEPT ![p] = h]
          /\ etag' = [etag EXCEPT ![p] = NormalizeETag(h)]
          /\ ppc' = [ppc EXCEPT ![p] = "exists"]
          /\ UNCHANGED result
     \/ \* the answer has no ETag header: None.strip
        /\ heads' = [heads EXCEPT ![p] = @ + 1]
        /\ Fail(p, "AttributeError")
        /\ UNCHANGED <<etag, header>>
     \/ \* the remote cannot be reached
        /\ Fail(p, "ConnectionError")
        /\ UNCHANGED <<etag, header, heads>>
  /\ UNCHANGED <<environ, gets, sawDir, dir, bin, calls, proc>>

\* if not os.path.exists(tool_dir)
NeedsDownloadAlways(k) == TRUE

NeedsDownload(k) == k \notin dir

\* the check of the cache directory, and the return when it is there
Exists(p) ==
  /\ ppc[p] = "exists"
  /\ sawDir' = [sawDir EXCEPT ![p] = etag[p] \in dir]
  /\ IF NeedsDownload(etag[p])
     THEN /\ ppc' = [ppc EXCEPT ![p] = "get"]
          /\ UNCHANGED result
     ELSE /\ ppc' = [ppc EXCEPT ![p] = "resolved"]
          /\ result' = [result EXCEPT ![p] = BinaryPath(etag[p])]
  /\ UNCHANGED <<header, heads, proc>>
  /\ UNCHANGED <<environ, etag, gets, dir, bin, calls>>

\* content = requests.get(url); f = zipfile.ZipFile(io.BytesIO(content.content))
Get(p) ==
  /\ ppc[p] = "get"
  /\ \/ /\ gets' = [gets EXCEPT ![p] = @ + 1]
        /\ \/ /\ ppc' = [ppc EXCEPT ![p] = "extract"]
              /\ UNCHANGED result
           \/ \* what came back is no archive
              Fail(p, "BadZipFile")
     \/ /\ Fail(p, "ConnectionError")
        /\ UNCHANGED gets
  /\ UNCHANGED <<header, heads, proc>>
  /\ UNCHANGED <<environ, etag, sawDir, dir, bin, calls>>

\* f.extractall(path=tool_dir): the directories are made
ExtractMakeDirs(p) ==
  /\ ppc[p] = "extract"
  /\ dir' = dir \cup {etag[p]}
  /\ ppc' = [ppc EXCEPT ![p] = "open"]
  /\ UNCHANGED <<header, heads, proc>>
  /\ UNCHANGED <<environ, etag, result, gets, sawDir, bin, calls>>

\* f.extractall: ArtifactTool.exe is opened for writing, which truncates it
ExtractOpen(p) ==
  /\ ppc[p] = "open"
  /\ bin' = [bin EXCEPT ![etag[p]] = "partial"]
  /\ ppc' = [ppc EXCEPT ![p] = "write"]
  /\ UNCHANGED <<header, heads, proc>>
  /\ UNCHANGED <<environ, etag, result, gets, sawDir, dir, calls>>

\* f.extractall: the last byte of ArtifactTool.exe is written; return the path
ExtractDone(p) ==
  /\ ppc[p] = "write"
  /\ bin' = [bin EXCEPT ![etag[p]] =
               IF \E q \in Procs \ {p} : ppc[q] = "write" /\ etag[q] = etag[p]
               THEN "partial" ELSE "complete"]
  /\ ppc' = [ppc EXCEPT ![p] = "resolved"]
  /\ result' = [result EXCEPT ![p] = BinaryPath(etag[p])]
  /\ UNCHANGED <<header, heads, proc>>
  /\ UNCHANGED <<environ, etag, gets, sawDir, dir, calls>>

\* f.extractall raises part-way (disk full, a corrupt member)
ExtractFail(p) ==
  /\ ppc[p] \in {"open", "write"}
  /\ Fail(p, "OSError")
  /\ UNCHANGED <<header, heads, proc>>
  /\ UNCHANGED <<environ, etag, gets, sawDir, dir, bin, calls>>

\* whether the operating system can start the binary at this path
Startable(binary) ==
  IF binary.key = <<>>
  THEN \* an override path: the file is there or it is not
       {"started", "FileNotFoundError"}
  ELSE IF bin[binary.key] = "complete" THEN {"started"}
  ELSE IF bin[binary.key] = "absent" THEN {"FileNotFoundError"}
  ELSE \* a file that is being written, or was left truncated
       {"started", "OSError"}

\* invoke_artifacttool, from the credentials to subprocess.Popen
Launch(p) ==
  /\ ppc[p] = "resolved"
  /\ proc[p].state = "none"
  /\ \/ \E password \in Passwords :
          LET new_env == [environ EXCEPT ![PATVAR] = password]
          IN  /\ environ' = EnvironAfter(environ, password)
              /\ \E state \in Startable(result[p]) :
                    proc' = [proc EXCEPT ![p] = Popen(state, result[p], new_env, password)]
     \/ \* _get_credentials raises
        /\ proc' = [proc EXCEPT ![p] = Popen("AuthenticationError", result[p], <<>>, None)]
        /\ UNCHANGED environ
  /\ UNCHANGED <<ppc, etag, result, gets, sawDir, dir, bin, calls, header, heads>>

\* ------------------------------------------------------------------------
\* Specifications
\* ------------------------------------------------------------------------
Init == StreamInit /\ ProvInit /\ environ[ARTIFACTTOOL_OVERRIDE_PATH_ENVKEY] = None

Next ==
  \/ download_upack /\ UNCHANGED provVars
  \/ publish_upack /\ UNCHANGED provVars
  \/ ChildWrite /\ UNCHANGED provVars
  \/ ChildStdoutBegin /\ UNCHANGED provVars
  \/ ChildStdoutEnd /\ UNCHANGED provVars
  \/ ChildClose /\ UNCHANGED provVars
  \/ ChildExit /\ UNCHANGED provVars
  \/ ProcessLine /\ UNCHANGED provVars
  \/ EndOfStream /\ UNCHANGED provVars
  \/ CheckProcResult /\ UNCHANGED provVars

Spec == Init /\ [][Next]_vars

InitProv == StreamInit /\ ProvInit

NextProv ==
  \E p \in Procs :
    \/ Invoke(p) /\ UNCHANGED streamVars
    \/ Head_(p) /\ UNCHANGED streamVars
    \/ Exists(p) /\ UNCHANGED streamVars
    \/ Get(p) /\ UNCHANGED streamVars
    \/ ExtractMakeDirs(p) /\ UNCHANGED streamVars
    \/ ExtractOpen(p) /\ UNCHANGED streamVars
    \/ ExtractDone(p) /\ UNCHANGED streamVars
    \/ ExtractFail(p) /\ UNCHANGED streamVars
    \/ Launch(p) /\ UNCHANGED streamVars

SpecProv == InitProv /\ [][NextProv]_vars

\* ------------------------------------------------------------------------
\* Properties
\* ------------------------------------------------------------------------
\* the loop of _process_stderr takes the next line of the stream in this step
Reads == pc = "stderr" /\ seen' # seen

NextLine == Head(stderrPipe)

Decodes(l) == l.enc = "utf8"

IsObject(l) == Decodes(l) /\ l.js = "object"

\* a JSON object with a message field whose level is Critical or Error
WellFormedFatal(l) ==
  IsObject(l) /\ "@m" \in l.has /\ "@l" \in l.has /\ l.l \in {"Critical", "Error"}

\* a JSON object whose level field is Critical or Error, with or without a message
FatalLevel(l) == IsObject(l) /\ "@l" \in l.has /\ l.l \in {"Critical", "Error"}

\* C1: the run ends in success only if the exit code is zero and no record
\* whose level is Critical or Error was observed on the stream, the records
\* without a message field included.
C1_SuccessOnlyIfCleanExitAndNoFatalRecord ==
  outcome.kind = "success" =>
    /\ returncode = <<0>>
    /\ \A i \in 1..Len(seen) : ~FatalLevel(seen[i])

\* C1 as amended: the run ends in success only if the exit code is zero and
\* no record with a message field whose level is Critical or Error was
\* observed on the stream.
C1_SuccessOnlyIfCleanExitAndNoFatalMessage ==
  outcome.kind = "success" =>
    /\ returncode = <<0>>
    /\ status = <<0>>
    /\ \A i \in 1..Len(seen) : ~WellFormedFatal(seen[i])

\* C1 witness: a run that read lines to the end of the stream, among them an
\* Error record without a message, and succeeded on exit code 0.
C1_Witness ==
  /\ outcome.kind = "success"
  /\ returncode = <<0>>
  /\ Len(seen) = 2
  /\ \E i \in 1..Len(seen) : FatalLevel(seen[i])

\* C2: a well-formed record whose level is Critical or Error ends the run at
\* once with a CLIError carrying the record's message: no progress report for
\* the line, no wait for the child, and from then on no line is interpreted,
\* nothing is reported and the outcome stays, whatever the child writes next
\* and whatever its exit code.
C2_FatalRecordAbortsAtOnce ==
  [][ /\ (Reads /\ WellFormedFatal(NextLine)) =>
           /\ pc' = "done"
           /\ outcome' = Outcome("CLIError", NextLine.m, <<>>, <<>>)
           /\ progress' = progress
           /\ returncode' = <<>>
      /\ outcome.kind = "CLIError" =>
           UNCHANGED <<pc, outcome, seen, logs, progress, returncode>>
    ]_vars

\* C2 witness: the run has failed with the record's message while the child
\* went on, wrote a line that was never read, and exited with code 0.
C2_Witness ==
  /\ outcome = Outcome("CLIError", "bad feed", <<>>, <<>>)
  /\ seen[Len(seen)] = LError
  /\ stderrPipe # <<>>
  /\ status = <<0>>
  /\ returncode = <<>>

\* C3: a line that cannot be parsed as JSON does not make _process_stderr
\* fail: its raw text is logged at debug severity, no progress is reported for
\* it, and the loop goes on to the next line.
C3_UnparseableLineIsTolerated ==
  [][ (Reads /\ NextLine.js = "invalid") =>
        /\ pc' = "stderr"
        /\ outcome' = outcome
        /\ progress' = progress
        /\ \E i \in 1..Len(logs') : i > Len(logs) /\ logs'[i] = Log("debug", NextLine.text)
    ]_vars

\* a line that parses as JSON and does not fit the schema: not an object, an
\* EventId that is not an object, or a recognized event without its counts
SchemaIncomplete(l) ==
  /\ Decodes(l)
  /\ l.js # "invalid"
  /\ ~WellFormedFatal(l)
  /\ \/ l.js \notin {"object", "null"}
     \/ l.js = "object" /\ "EventId" \in l.has /\ l.evt # "object"
     \/ /\ l.js = "object" /\ l.evt = "object" /\ l.evhas
        /\ \/ l.name = "ProcessingFiles" /\ ~({"ProcessedFiles", "TotalFiles"} \subseteq l.has)
           \/ l.name = "Uploading" /\ ~({"UploadedBytes", "TotalBytes"} \subseteq l.has)

\* C4: a line that parses as JSON and does not fit the schema raises nothing:
\* it is logged and the loop goes on to the next line.
C4_SchemaIncompleteLineNeverRaises ==
  [][ (Reads /\ SchemaIncomplete(NextLine)) =>
        /\ pc' = "stderr"
        /\ outcome' = outcome
        /\ logs' # logs
    ]_vars

\* stray text: decodes, and is not JSON
RawText(l) == Decodes(l) /\ l.js = "invalid"

\* C5: a child that wrote only unparseable lines and exited with a code that
\* is not zero makes the run fail with a Process error that carries the exit
\* code and the trailing error text.
C5_ProcessErrorCarriesTrailingText ==
  ( /\ pc = "done"
    /\ returncode # <<>>
    /\ returncode # <<0>>
    /\ seen # <<>>
    /\ \A i \in 1..Len(seen) : RawText(seen[i]) ) =>
    /\ outcome.kind = "Exception"
    /\ outcome.code = status
    /\ \E i \in 1..Len(outcome.text) : outcome.text[i] = seen[Len(seen)].text

\* a ProcessingFiles or Uploading event with its two counts
ProgressEvent(l) ==
  /\ IsObject(l)
  /\ ~WellFormedFatal(l)
  /\ l.evt = "object" /\ l.evhas
  /\ \/ l.name = "ProcessingFiles" /\ {"ProcessedFiles", "TotalFiles"} \subseteq l.has
     \/ l.name = "Uploading" /\ {"UploadedBytes", "TotalBytes"} \subseteq l.has

Numerator(l) == IF l.name = "ProcessingFiles" THEN l.pf ELSE l.ub

Denominator(l) == IF l.name = "ProcessingFiles" THEN l.tf ELSE l.tb

\* C6: a ProcessingFiles or Uploading event reports 100 * numerator /
\* denominator, and a denominator of zero raises nothing: it reports 0% and
\* the loop goes on.
C6_ProgressPercentAndZeroDenominator ==
  [][ (Reads /\ ProgressEvent(NextLine)) =>
        /\ pc' = "stderr"
        /\ outcome' = outcome
        /\ Len(progress') = Len(progress) + 1
        /\ LET reported == progress'[Len(progress')].progress
           IN  IF Denominator(NextLine) = 0
               THEN reported.n = 0
               ELSE reported.n * Denominator(NextLine)
                      = 100 * Numerator(NextLine) * reported.d
    ]_vars

\* no other invocation is inside _get_artifacttool
Alone(p) == \A q \in Procs \ {p} : ppc[q] \in {"idle", "resolved", "failed"}

\* C7: without an override path, a provisioning call that returns gives the
\* path of a binary that exists on the file system, after any sequence of
\* earlier calls (no other call is in progress), a call whose extraction
\* failed part-way included.
C7_ReturnedBinaryExists ==
  \A p \in Procs :
    ( /\ ppc[p] = "resolved"
      /\ environ[ARTIFACTTOOL_OVERRIDE_PATH_ENVKEY] = None
      /\ Alone(p) ) =>
      bin[result[p].key] # "absent"

\* C8: an invocation that found the cache directory present and skipped the
\* download holds a fully extracted binary, whatever other invocations of the
\* same ETag do at the same time.
C8_SkippedDownloadSeesFullExtraction ==
  \A p \in Procs :
    (ppc[p] = "resolved" /\ sawDir[p]) => bin[etag[p]] = "complete"

\* C9: when the cache directory exists at the check, the call issues no GET,
\* extracts nothing and returns the fixed binary path inside that directory.
C9_ExistingDirectorySkipsDownload ==
  \A p \in Procs :
    sawDir[p] =>
      /\ gets[p] = 0
      /\ ppc[p] = "resolved"
      /\ result[p].key = etag[p]
      /\ result[p].root = "<tempdir>/ArtifactTool"
      /\ result[p].sub = "artifacttool-win10-x64-Release/ArtifactTool.exe"
      /\ result[p].error = None

\* C9 witness: a second call for an ETag whose directory a first call made
\* has returned without a GET.
C9_Witness ==
  \E p \in Procs :
    /\ sawDir[p]
    /\ ppc[p] = "resolved"
    /\ gets[p] = 0
    /\ bin[etag[p]] = "complete"

\* a JSON object with a message field and no level field
NoLevelRecord(l) == IsObject(l) /\ "@m" \in l.has /\ "@l" \notin l.has

\* the severity a record that is not fatal is surfaced at
SurfacedAt(l) ==
  IF "@l" \notin l.has \/ l.l = "Information" THEN "info"
  ELSE IF l.l = "Warning" THEN "warning"
  ELSE "debug"

\* C10: a record with a message and no level is surfaced at Information
\* severity and never makes the run fail; Warning is surfaced at warning,
\* Information at info, any other level that is not fatal at debug.
C10_SeverityMappingAndNoLevelNeverFails ==
  [][ (Reads /\ IsObject(NextLine) /\ "@m" \in NextLine.has /\ ~WellFormedFatal(NextLine)) =>
        /\ \E i \in 1..Len(logs') :
             i > Len(logs) /\ logs'[i] = Log(SurfacedAt(NextLine), NextLine.m)
        /\ NoLevelRecord(NextLine) => (pc' = "stderr" /\ outcome' = outcome)
    ]_vars

\* a Warning, Information or debug-level record, or a line of stray text
Benign(l) ==
  /\ Decodes(l)
  /\ \/ l.js = "invalid"
     \/ l.js = "object" /\ "@m" \in l.has /\ ~FatalLevel(l)

\* C11: a child that exits with code 0 after writing only Warning,
\* Information, debug-level or unparseable lines, all of them observed, makes
\* the run succeed.
C11_CleanExitWithoutFatalRecordSucceeds ==
  ( /\ pc = "done"
    /\ status = <<0>>
    /\ seen = emitted
    /\ \A i \in 1..Len(seen) : Benign(seen[i]) ) =>
    outcome.kind = "success"

\* C16: the completion check runs only after the loop of _process_stderr has
\* reached the end of the error stream: when proc.wait() is called, and when
\* the exit code has decided the outcome, every line the child wrote has been
\* interpreted and the stream is closed.
C16_CheckOnlyAfterStreamDrained ==
  (pc = "check" \/ returncode # <<>> \/ outcome.kind \in {"success", "Exception"}) =>
    /\ seen = emitted
    /\ stderrPipe = <<>>
    /\ child \in {"closed", "exited"}

\* C16 witness: a run that has interpreted two lines and then failed on the
\* exit code 2 of the child.
C16_Witness ==
  /\ pc = "done"
  /\ outcome.kind = "Exception"
  /\ returncode = <<2>>
  /\ Len(seen) = 2
  /\ seen = emitted

RECURSIVE LogsOf(_)
\* the logger calls of the lines ls, line after line
LogsOf(ls) == IF ls = <<>> THEN <<>> ELSE LoopBody(Head(ls)).logs \o LogsOf(Tail(ls))

RECURSIVE StepsOf(_)
\* the progress reports of the lines ls, line after line
StepsOf(ls) == IF ls = <<>> THEN <<>> ELSE LoopBody(Head(ls)).steps \o StepsOf(Tail(ls))

\* C17: lines are handled in the order the child wrote them: the lines taken
\* so far are a prefix of the lines written, none skipped and none taken
\* twice; the logger calls and the progress reports made so far are those of
\* the lines taken, line after line; and no line is taken after one that
\* raised.
C17_LinesHandledInOrder ==
  /\ seen \o stderrPipe = emitted
  /\ logs = LogsOf(seen)
  /\ pc # "idle" => progress = <<FirstStep>> \o StepsOf(seen)
  /\ \A i \in 1..(Len(seen) - 1) : LoopBody(seen[i]).raise = None

\* C17 witness: two lines were handled, each with its log and the first with
\* its progress report, and the run succeeded.
C17_Witness ==
  /\ outcome.kind = "success"
  /\ seen = <<LProcessing, LWarning>>
  /\ logs = <<Log("info", "processing"), Log("warning", "slow")>>
  /\ Len(progress) = 2

\* a line that is not fatal and whose EventId names ProcessingFiles or Uploading
NamedProgressEvent(l) ==
  /\ IsObject(l)
  /\ ~WellFormedFatal(l)
  /\ l.evt = "object" /\ l.evhas
  /\ l.name \in {"ProcessingFiles", "Uploading"}

\* C18: every line that is not fatal and whose EventId names ProcessingFiles
\* or Uploading makes exactly one progress report, labelled "Pre-upload
\* processing: X/Y files" or "Uploading: X/Y bytes", with or without a message
\* and a level (Uploading 50 of 200 reports 25%); every other line makes none.
C18_ProgressDependsOnlyOnEventId ==
  [][ Reads =>
        IF NamedProgressEvent(NextLine)
        THEN /\ Len(progress') = Len(progress) + 1
             /\ LET report == progress'[Len(progress')]
                IN  /\ report.label.fmt =
                         IF NextLine.name = "Uploading" THEN "Uploading: %s/%s bytes"
                         ELSE "Pre-upload processing: %s/%s files"
                    /\ NextLine = LUploading =>
                         /\ report.progress.n = 25 * report.progress.d
                         /\ report.label.x = 50 /\ report.label.y = 200
        ELSE progress' = progress
    ]_vars

\* C20: the supervision cannot deadlock: while the run has not ended, the
\* wrapper or the child can take a step.
C20_NoDeadlock == pc \in {"stderr", "check"} => ENABLED Next

\* the positions of an invocation inside _get_artifacttool
Provisioning == {"head", "exists", "get", "extract", "open", "write"}

\* C12: with the override path configured, every invocation gives Popen
\* exactly that path and takes no provisioning step: no HEAD, no GET, no check
\* of the cache directory, nothing written to the cache.
C12_OverrideSkipsProvisioning ==
  environ[ARTIFACTTOOL_OVERRIDE_PATH_ENVKEY] # None =>
    /\ dir = {}
    /\ \A k \in Keys : bin[k] = "absent"
    /\ \A p \in Procs :
         /\ ppc[p] \notin Provisioning \cup {"failed"}
         /\ heads[p] = 0 /\ gets[p] = 0 /\ ~sawDir[p]
         /\ header[p] = <<>> /\ etag[p] = <<>>
         /\ proc[p].state # "none" =>
              /\ proc[p].cmd.root = environ[ARTIFACTTOOL_OVERRIDE_PATH_ENVKEY]
              /\ proc[p].cmd.key = <<>> /\ proc[p].cmd.sub = ""

\* C12 witness: with the override configured, a child was started from it.
C12_Witness ==
  /\ environ[ARTIFACTTOOL_OVERRIDE_PATH_ENVKEY] = "/opt/ArtifactTool"
  /\ \E p \in Procs :
       /\ proc[p].state = "started"
       /\ proc[p].cmd.root = "/opt/ArtifactTool"

\* C13: a failure inside _get_artifacttool (HEAD fails, no ETag header, the
\* archive cannot be fetched or extracted) raises an error that is neither the
\* CLIError of a fatal record nor the Exception of a non-zero exit code; the
\* failed invocation starts no child, and it issued at most one HEAD and one
\* GET.
C13_ProvisioningFailureIsDistinct ==
  [][ \A p \in Procs :
        /\ (ppc[p] \in Provisioning /\ ppc'[p] = "failed") =>
             result'[p].error \notin {None, "CLIError", "Exception"}
        /\ ppc'[p] = "failed" =>
             /\ proc'[p].state = "none"
             /\ heads'[p] <= 1 /\ gets'[p] <= 1
    ]_vars

\* C13 witness: one invocation failed for a missing ETag header and another
\* for an extraction that raised, and neither started a child.
C13_Witness ==
  \E p, q \in Procs :
    /\ ppc[p] = "failed" /\ result[p].error = "AttributeError"
    /\ ppc[q] = "failed" /\ result[q].error = "OSError" /\ gets[q] = 1
    /\ proc[p].state = "none" /\ proc[q].state = "none"

\* the header value "abc0xDEF", quotes included
QuotedAbc0xDEF == <<"\"", "a", "b", "c", "0", "x", "D", "E", "F", "\"">>

\* the header value "ABCDEF", quotes included
QuotedABCDEF == <<"\"", "A", "B", "C", "D", "E", "F", "\"">>

\* C14: the headers "abc0xDEF" and "ABCDEF" (quoted) both give the cache key
\* abcdef, and an invocation that returns after either of them returns the
\* binary of the one directory <tempdir>/ArtifactTool/abcdef.
C14_BothHeadersGiveKeyAbcdef ==
  \A p \in Procs :
    header[p] \in {QuotedAbc0xDEF, QuotedABCDEF} =>
      /\ etag[p] = <<"a", "b", "c", "d", "e", "f">>
      /\ ppc[p] = "resolved" => result[p] = BinaryPath(<<"a", "b", "c", "d", "e", "f">>)

\* C14 witness: two invocations, one answered with each header, returned the
\* same path.
C14_Witness ==
  \E p, q \in Procs :
    /\ header[p] = QuotedAbc0xDEF /\ header[q] = QuotedABCDEF
    /\ ppc[p] = "resolved" /\ ppc[q] = "resolved"
    /\ result[p] = result[q]
    /\ result[p].key = <<"a", "b", "c", "d", "e", "f">>

\* C15: no step changes os.environ, which never holds a password; the
\* environment given to a child is os.environ with the password of that
\* invocation under VSTS_ARTIFACTTOOL_PATVAR and nothing else changed.
C15_ParentEnvironmentNeverMutated ==
  [][ /\ environ' = environ
      /\ environ'[PATVAR] \notin Passwords
      /\ \A p \in Procs :
           (proc'[p] # proc[p] /\ proc'[p].password # None) =>
             /\ proc'[p].env[PATVAR] = proc'[p].password
             /\ \A k \in EnvKeys \ {PATVAR} : proc'[p].env[k] = environ[k]
    ]_vars

\* C15 witness: two invocations have started children with different
\* passwords, and os.environ holds neither.
C15_Witness ==
  \E p, q \in Procs :
    /\ proc[p].state = "started" /\ proc[q].state = "started"
    /\ proc[p].env[PATVAR] = "pat-1" /\ proc[q].env[PATVAR] = "pat-2"
    /\ environ[PATVAR] = None

\* C19: at most one GET-and-extract is performed per identifier: no two
\* invocations are extracting the archive into the directory of the same
\* identifier.
C19_OneExtractionPerIdentifier ==
  \A p, q \in Procs :
    (p # q /\ ppc[p] \in {"open", "write"} /\ ppc[q] \in {"open", "write"}) =>
      etag[p] # etag[q]

====
